---- MODULE Spec2Model ----
(***************************************************************************)
(* Model of scripts/ops/bulk_invite.py: read_addresses, send_invites and   *)
(* the driver loop of main.  Line 33 of the file carries a stray character *)
(* after the string literal; the statement is read as                      *)
(* input_file = 'extracted_wallets.txt'.                                   *)
(*                                                                         *)
(* A string is a sequence of one-character strings.  The input file is the *)
(* sequence of lines that iterating the file object yields (each line      *)
(* keeps its trailing newline, except possibly the last one).  The console *)
(* is the sequence of printed lines; the external processes started by     *)
(* subprocess.run are recorded by their command strings.                   *)
(***************************************************************************)
EXTENDS Integers, Sequences, FiniteSets, TLC

VARIABLES
    readable,   \* the input file exists and can be opened
    file,       \* its lines, as iteration over the file object yields them
    dry_run,    \* args.dry_run
    pc,         \* position of main: start, loop, send, wait, done, aborted
    err,        \* the exception that ended the run ("" if none)
    addresses,  \* the list read_addresses returned
    i,          \* the loop variable of range(0, len(addresses), batch_size)
    out,        \* the console: the lines printed so far
    calls,      \* the batches send_invites was called with, in order
    launched,   \* command strings of the external processes started
    statuses,   \* exit statuses of the external processes that completed
    inflight    \* number of external processes running

vars == <<readable, file, dry_run, pc, err, addresses, i, out, calls,
          launched, statuses, inflight>>

----------------------------------------------------------------------------
(* Bounds of the model *)

\* largest number of lines of the input file
MaxLines == 60

\* largest rotation of the line patterns below
MaxOffset == 1

----------------------------------------------------------------------------
(* Program constants *)

batch_size == 25

cmd0 ==
    << <<"E","T","H","O","S","_","C","L","I","_","E","N","V","=",
         "t","e","s","t","n","e","t">>,
       <<"e","t","h","o","s">>,
       <<"i","n","v","i","t","e">>,
       <<"b","u","l","k">>,
       <<"-","-","w","a","i","t">> >>

DashR == <<"-","r">>

\* the characters str.strip() removes that occur in the model's files
Whitespace == {" ", "\t", "\n"}

\* exit statuses of the shell: success, failure of the CLI, and 127 when the
\* shell does not find the ethos program
ExitStatuses == {0, 1, 127}

----------------------------------------------------------------------------
(* Input files *)

NL == <<"\n">>

PlainLines ==
    << <<"a">> \o NL, <<"b">> \o NL, <<"a","b">> \o NL, <<"b","a">> \o NL >>

PaddedLines ==
    << <<"a">> \o NL,
       NL,
       <<" ","b","\t">> \o NL,
       <<" "," ","\t">> \o NL,
       <<"\t","a","b">> \o NL,
       <<"a">> \o NL >>

SpecialLines ==
    << <<"a"," ","b">> \o NL,
       <<"b">> \o NL,
       <<" ","a",";","b">> \o NL,
       <<"a","\t","b"," ">> \o NL >>

LinePools == <<PlainLines, PaddedLines, SpecialLines>>

\* a file of n lines that repeats the pattern, rotated by offset; with
\* chopped, the last line has no trailing newline
FileOf(pool, n, offset, chopped) ==
    [k \in 1..n |->
        LET line == pool[((k + offset - 1) % Len(pool)) + 1]
        IN  IF chopped /\ k = n THEN SubSeq(line, 1, Len(line) - 1) ELSE line]

Files ==
    { FileOf(LinePools[p], n, offset, chopped) :
        p \in 1..Len(LinePools), n \in 0..MaxLines,
        offset \in 0..MaxOffset, chopped \in BOOLEAN }

----------------------------------------------------------------------------
(* str.strip, str.join, slicing *)

RECURSIVE lstrip(_)
lstrip(s) ==
    IF s = <<>> THEN s
    ELSE IF Head(s) \in Whitespace THEN lstrip(Tail(s)) ELSE s

RECURSIVE rstrip(_)
rstrip(s) ==
    IF s = <<>> THEN s
    ELSE IF s[Len(s)] \in Whitespace THEN rstrip(SubSeq(s, 1, Len(s) - 1))
    ELSE s

\* faulty variant: only the end of the line is trimmed (str.rstrip)
strip_right_only(s) == rstrip(s)

strip(s) == lstrip(rstrip(s))

\* [line.strip() for line in f if line.strip()]
RECURSIVE StrippedLines(_, _, _)
StrippedLines(f, k, acc) ==
    IF k > Len(f) THEN acc
    ELSE IF strip(f[k]) # <<>>
         THEN StrippedLines(f, k + 1, Append(acc, strip(f[k])))
         ELSE StrippedLines(f, k + 1, acc)

read_addresses(f) == StrippedLines(f, 1, <<>>)

Min(a, b) == IF a < b THEN a ELSE b

\* faulty variant: the slice stops one element early
SliceShort(s, lo, hi) == SubSeq(s, lo + 1, Min(hi, Len(s)) - 1)

\* faulty variant: the slice takes one element too many
SliceLong(s, lo, hi) == SubSeq(s, lo + 1, Min(hi + 1, Len(s)))

\* s[lo:hi] for 0 <= lo <= hi
Slice(s, lo, hi) == SubSeq(s, lo + 1, Min(hi, Len(s)))

\* cmd.extend(['-r', addr]) for each addr of the batch
RECURSIVE ExtendCmd(_, _, _)
ExtendCmd(cmd, addrs, k) ==
    IF k > Len(addrs) THEN cmd
    ELSE ExtendCmd(cmd \o <<DashR, addrs[k]>>, addrs, k + 1)

\* ' '.join(cmd)
RECURSIVE Join(_, _, _)
Join(toks, k, acc) ==
    IF k > Len(toks) THEN acc
    ELSE Join(toks, k + 1, IF k = 1 THEN toks[k] ELSE acc \o <<" ">> \o toks[k])

cmd_str(batch) == Join(ExtendCmd(cmd0, batch, 1), 1, <<>>)

----------------------------------------------------------------------------
(* Console lines *)

Line(kind, idx, n, text) == [kind |-> kind, idx |-> idx, n |-> n, text |-> text]

----------------------------------------------------------------------------
(* The program *)

Init ==
    /\ readable \in BOOLEAN
    /\ file \in (IF readable THEN Files ELSE {<<>>})
    /\ dry_run \in BOOLEAN
    /\ pc = "start"
    /\ err = ""
    /\ addresses = <<>>
    /\ i = 0
    /\ out = <<>>
    /\ calls = <<>>
    /\ launched = <<>>
    /\ statuses = <<>>
    /\ inflight = 0

\* faulty variant: a file that cannot be opened is read as an empty list
MainMissingFileIsEmpty ==
    /\ pc = "start"
    /\ addresses' = (IF readable THEN read_addresses(file) ELSE <<>>)
    /\ pc' = "loop"
    /\ UNCHANGED <<readable, file, dry_run, err, i, out, calls, launched,
                   statuses, inflight>>

\* main, up to the loop: open() raises when the file is missing or unreadable
Main ==
    /\ pc = "start"
    /\ IF readable
       THEN /\ addresses' = read_addresses(file)
            /\ pc' = "loop"
            /\ err' = err
       ELSE /\ addresses' = addresses
            /\ pc' = "aborted"
            /\ err' = "OSError(open)"
    /\ UNCHANGED <<readable, file, dry_run, i, out, calls, launched, statuses,
                   inflight>>

\* faulty variant: the range includes its stop value
RangeHasInclusive(idx, n) == idx <= n

\* the range has a next value
RangeHas(idx, n) == idx < n

\* loop head: take the batch and print the banner
LoopBanner ==
    /\ pc = "loop"
    /\ RangeHas(i, Len(addresses))
    /\ LET batch == Slice(addresses, i, i + batch_size)
       IN  out' = Append(out, Line("banner", (i \div batch_size) + 1, Len(batch), <<>>))
    /\ pc' = "send"
    /\ UNCHANGED <<readable, file, dry_run, err, addresses, i, calls, launched,
                   statuses, inflight>>

\* the range is exhausted: main returns
LoopExit ==
    /\ pc = "loop"
    /\ ~RangeHas(i, Len(addresses))
    /\ pc' = "done"
    /\ UNCHANGED <<readable, file, dry_run, err, addresses, i, out, calls,
                   launched, statuses, inflight>>

\* faulty variant: the dry-run flag is ignored and the command is run
SendInvitesDryRunExec ==
    /\ pc = "send"
    /\ dry_run
    /\ LET batch == Slice(addresses, i, i + batch_size)
       IN  /\ calls' = Append(calls, batch)
           /\ launched' = Append(launched, cmd_str(batch))
    /\ inflight' = inflight + 1
    /\ pc' = "wait"
    /\ UNCHANGED <<readable, file, dry_run, err, addresses, i, out, statuses>>

\* send_invites(batch, dry_run=True)
SendInvitesDryRun ==
    /\ pc = "send"
    /\ dry_run
    /\ LET batch == Slice(addresses, i, i + batch_size)
       IN  /\ calls' = Append(calls, batch)
           /\ out' = out \o << Line("dry_header", 0, 0, <<>>),
                               Line("dry_cmd", 0, 0, cmd_str(batch)),
                               Line("dry_count", 0, Len(batch), <<>>) >>
    /\ i' = i + batch_size
    /\ pc' = "loop"
    /\ UNCHANGED <<readable, file, dry_run, err, addresses, launched, statuses,
                   inflight>>

\* faulty variant: the process is started and not waited for (Popen)
SendInvitesNoWait ==
    /\ pc = "send"
    /\ ~dry_run
    /\ LET batch == Slice(addresses, i, i + batch_size)
       IN  /\ calls' = Append(calls, batch)
           /\ launched' = Append(launched, cmd_str(batch))
    /\ inflight' = inflight + 1
    /\ i' = i + batch_size
    /\ pc' = "loop"
    /\ UNCHANGED <<readable, file, dry_run, err, addresses, out, statuses>>

\* send_invites(batch, dry_run=False): subprocess.run starts the shell and waits
SendInvitesRun ==
    /\ pc = "send"
    /\ ~dry_run
    /\ LET batch == Slice(addresses, i, i + batch_size)
       IN  /\ calls' = Append(calls, batch)
           /\ launched' = Append(launched, cmd_str(batch))
    /\ inflight' = inflight + 1
    /\ pc' = "wait"
    /\ UNCHANGED <<readable, file, dry_run, err, addresses, i, out, statuses>>

\* send_invites(batch, dry_run=False): subprocess.run cannot start the shell
\* (fork or exec fails) and raises OSError, which no except clause catches
SendInvitesOSError ==
    /\ pc = "send"
    /\ ~dry_run
    /\ LET batch == Slice(addresses, i, i + batch_size)
       IN  calls' = Append(calls, batch)
    /\ pc' = "aborted"
    /\ err' = "OSError(run)"
    /\ UNCHANGED <<readable, file, dry_run, addresses, i, out, launched,
                   statuses, inflight>>

\* faulty variant: CalledProcessError is not caught and ends the run
ProcessExitFatal ==
    /\ pc = "wait"
    /\ \E st \in ExitStatuses :
        /\ statuses' = Append(statuses, st)
        /\ IF st = 0
           THEN /\ out' = Append(out, Line("success", 0, Len(calls[Len(calls)]), <<>>))
                /\ i' = i + batch_size
                /\ pc' = "loop"
                /\ err' = err
           ELSE /\ out' = out
                /\ i' = i
                /\ pc' = "aborted"
                /\ err' = "CalledProcessError"
    /\ inflight' = inflight - 1
    /\ UNCHANGED <<readable, file, dry_run, addresses, calls, launched>>

\* the shell exits: check=True raises CalledProcessError on a non-zero status,
\* which send_invites catches and prints; then the loop goes on
ProcessExit ==
    /\ pc = "wait"
    /\ \E st \in ExitStatuses :
        /\ statuses' = Append(statuses, st)
        /\ out' = Append(out,
                    IF st = 0
                    THEN Line("success", 0, Len(calls[Len(calls)]), <<>>)
                    ELSE Line("error", 0, st, launched[Len(launched)]))
    /\ inflight' = inflight - 1
    /\ i' = i + batch_size
    /\ pc' = "loop"
    /\ UNCHANGED <<readable, file, dry_run, err, addresses, calls, launched>>

Next ==
    \/ Main
    \/ LoopBanner
    \/ LoopExit
    \/ SendInvitesDryRun
    \/ SendInvitesRun
    \/ SendInvitesOSError
    \/ ProcessExit

Spec == Init /\ [][Next]_vars

\* Termination does not depend on the text of the lines: the runs over the
\* files of plain lines of every length, and the file that cannot be opened.
FairInit ==
    /\ Init
    /\ readable => \E n \in 0..MaxLines : file = FileOf(PlainLines, n, 0, FALSE)

\* every step of the script is eventually taken (the interpreter runs on);
\* an external process that was started eventually exits
FairSpec == FairInit /\ [][Next]_vars /\ WF_vars(Next)

----------------------------------------------------------------------------
(* What the shell does with the command string of subprocess.run(cmd_str,   *)
(* shell=True): ';' ends a command, blanks separate the words of a command,*)
(* leading NAME=value words are assignments to the command's environment,  *)
(* and the remaining words are the argument vector of the program.         *)

\* the pieces of s between the characters of seps (split, empty pieces kept)
SplitAt(s, seps) ==
    LET cuts  == {0, Len(s) + 1} \cup {k \in 1..Len(s) : s[k] \in seps}
        order == [c \in cuts |-> Cardinality({d \in cuts : d < c})]
        cut   == [j \in 0..(Cardinality(cuts) - 1) |-> CHOOSE c \in cuts : order[c] = j]
    IN  [j \in 1..(Cardinality(cuts) - 1) |-> SubSeq(s, cut[j - 1] + 1, cut[j] - 1)]

NonEmpty(w) == w # <<>>

ShellWords(segment) == SelectSeq(SplitAt(segment, {" ", "\t"}), NonEmpty)

NameChars == {"E","T","H","O","S","_","C","L","I","N","V","a","b"}

IsAssignment(w) ==
    \E j \in 2..Len(w) : w[j] = "=" /\ \A m \in 1..(j - 1) : w[m] \in NameChars

RECURSIVE DropAssignments(_)
DropAssignments(ws) ==
    IF ws = <<>> THEN ws
    ELSE IF IsAssignment(Head(ws)) THEN DropAssignments(Tail(ws)) ELSE ws

\* the argument vectors of the commands the shell runs, in order
ShellCommands(s) ==
    LET segs == SplitAt(s, {";", "\n"})
    IN  [k \in 1..Len(segs) |-> DropAssignments(ShellWords(segs[k]))]

\* the argument vector the invite CLI is started with
CLIArgv(s) == ShellCommands(s)[1]

----------------------------------------------------------------------------
(* Vocabulary of the properties *)

N == Len(addresses)

CeilDiv(a, b) == (a + b - 1) \div b

NumBatches == CeilDiv(N, batch_size)

\* the k-th contiguous group of batch_size addresses
BatchOf(k) == SubSeq(addresses, batch_size * (k - 1) + 1, Min(batch_size * k, N))

RECURSIVE Flatten(_, _, _)
Flatten(ss, k, acc) ==
    IF k > Len(ss) THEN acc ELSE Flatten(ss, k + 1, acc \o ss[k])

Terminated == pc \in {"done", "aborted"}

NonBlank(line) == \E j \in 1..Len(line) : line[j] \notin Whitespace

NonBlankLines == {k \in 1..Len(file) : NonBlank(file[k])}

\* the part of a non-blank line from its first to its last non-blank character
Core(line) ==
    LET ink == {j \in 1..Len(line) : line[j] \notin Whitespace}
        lo  == CHOOSE j \in ink : \A m \in ink : j <= m
        hi  == CHOOSE j \in ink : \A m \in ink : m <= j
    IN  SubSeq(line, lo, hi)

Reports == {"success", "error", "dry_count"}

BannersUpTo(p) == Cardinality({q \in 1..p : out[q].kind = "banner"})

\* what the CLI is meant to receive for a batch
ExpectedArgv(batch) == Tail(ExtendCmd(cmd0, batch, 1))

----------------------------------------------------------------------------
(* Properties *)

\* C1: the batches handed to send_invites are, in order, the contiguous
\* groups of the loaded list: at every moment their concatenation is a prefix
\* of the list (nothing skipped, repeated or reordered, duplicates kept), and
\* when main returns there are exactly ceil(N / 25) of them, N being the
\* number of non-blank lines of the file, and their concatenation is the list.
C1_BatchesPartitionList ==
    LET flat == Flatten(calls, 1, <<>>)
    IN  /\ Len(flat) <= N
        /\ flat = SubSeq(addresses, 1, Len(flat))
        /\ pc = "done" =>
              /\ Len(calls) = CeilDiv(Cardinality(NonBlankLines), batch_size)
              /\ flat = addresses

C1_Witness ==
    /\ pc = "done"
    /\ ~dry_run
    /\ Len(calls) = 3
    /\ N = 57
    /\ addresses[1] = addresses[5]
    /\ Flatten(calls, 1, <<>>) = addresses

\* C2: without --dry-run, the line printed for a batch whose command exited
\* with status zero is the success line with the batch's address count, the
\* line printed for a batch whose command exited non-zero is the error line,
\* and neither outcome stops the loop: once the run has ended, every batch
\* all of whose predecessors returned an exit status has been handed to
\* send_invites.
C2_ExitStatusReportedAndIsolated ==
    ~dry_run =>
        /\ \A k \in 1..Len(statuses) :
              /\ 2 * k <= Len(out)
              /\ IF statuses[k] = 0
                 THEN out[2 * k] = Line("success", 0, Len(BatchOf(k)), <<>>)
                 ELSE out[2 * k].kind = "error" /\ out[2 * k].n = statuses[k]
        /\ \A j \in 1..NumBatches :
              (Terminated /\ Len(statuses) >= j - 1) =>
                  (Len(calls) >= j /\ calls[j] = BatchOf(j))

C2_Witness ==
    /\ ~dry_run
    /\ pc = "done"
    /\ statuses = <<1, 0, 127>>
    /\ Len(calls) = 3
    /\ out[2].kind = "error"
    /\ out[4].kind = "success"

\* C3 (as claimed): when subprocess.run cannot start the command for a batch,
\* send_invites reports it and the driver goes on with the next batch: a
\* call of send_invites that started no process never ends the run.
C3_LaunchFailureIsNonFatal ==
    (~dry_run /\ Len(calls) > Len(launched)) =>
        (pc # "aborted" /\ Len(out) = 2 * Len(calls))

\* C4: with --dry-run no external process is started at any point, no
\* exception is raised once the file was read, and for every batch the three
\* lines printed after its banner are the header, the command string built
\* from the batch, and the batch's length.
C4_DryRunLaunchesNothing ==
    dry_run =>
        /\ launched = <<>>
        /\ statuses = <<>>
        /\ inflight = 0
        /\ readable => (pc # "aborted" /\ err = "")
        /\ \A k \in 1..Len(calls) :
              /\ out[4 * k - 2].kind = "dry_header"
              /\ out[4 * k - 1].kind = "dry_cmd"
              /\ out[4 * k - 1].text = cmd_str(BatchOf(k))
              /\ out[4 * k] = Line("dry_count", 0, Len(calls[k]), <<>>)
              /\ out[4 * k].n = out[4 * k - 3].n

C4_Witness ==
    /\ dry_run
    /\ pc = "done"
    /\ Len(calls) = 3
    /\ Len(out) = 12
    /\ out[12].n = 10
    /\ launched = <<>>

\* C5: once the file is read, the list holds one entry per non-blank line
\* of the file, in file order (the j-th non-blank line is entry j), each the
\* line cut down to the span from its first to its last non-blank character;
\* so no entry, and no entry of any batch, is the empty string.
C5_ReadAddressesTrimsAndDropsBlank ==
    (readable /\ pc # "start") =>
        LET nb   == NonBlankLines
            rank == [k \in 1..Len(file) |-> Cardinality({m \in nb : m <= k})]
        IN  /\ N = Cardinality(nb)
            /\ \A k \in nb : addresses[rank[k]] = Core(file[k])
            /\ \A j \in 1..N : addresses[j] # <<>>
            /\ \A k \in 1..Len(calls) :
                  \A j \in 1..Len(calls[k]) : calls[k][j] # <<>>

C5_Witness ==
    /\ pc = "done"
    /\ Len(file) = 15
    /\ N = 10
    /\ \E k \in 1..Len(file) : file[k] = <<" ", "b", "\t", "\n">>
    /\ addresses[2] = <<"b">>
    /\ addresses[4] = addresses[1]
    /\ Len(calls) = 1
    /\ Len(calls[1]) = 10

\* C6: when the input file cannot be opened, nothing is ever printed,
\* send_invites is never called and no process is started, and the first
\* step ends the run with the error of open(), with or without --dry-run.
C6_MissingFileAborts ==
    ~readable =>
        /\ out = <<>>
        /\ calls = <<>>
        /\ launched = <<>>
        /\ pc # "start" => (pc = "aborted" /\ err = "OSError(open)")

C6_Witness ==
    /\ ~readable
    /\ ~dry_run
    /\ pc = "aborted"
    /\ err = "OSError(open)"

\* C7 (as claimed): for every process started, the argument vector the CLI
\* receives is the program name and the fixed flags followed by one
\* -r <address> pair per address of the batch, each address one argument,
\* unchanged.
C7_ArgvIsLiteral ==
    \A k \in 1..Len(launched) : CLIArgv(launched[k]) = ExpectedArgv(calls[k])

\* C8: batches are processed one at a time in increasing order: the k-th
\* banner carries index k and the size of the k-th batch; send_invites is
\* called with the k-th batch after the k-th banner and before the next one;
\* the line before banner k+1 is the report of batch k, whose process (if
\* any) has exited by then; and never more than one process is running.
C8_OneBatchAtATimeInOrder ==
    /\ inflight \in {0, 1}
    /\ inflight = 1 <=> pc = "wait"
    /\ Len(calls) <= NumBatches
    /\ \A k \in 1..Len(calls) : calls[k] = BatchOf(k)
    /\ BannersUpTo(Len(out)) = Len(calls) + (IF pc = "send" THEN 1 ELSE 0)
    /\ \A p \in 1..Len(out) :
          out[p].kind = "banner" =>
              LET k == out[p].idx
              IN  /\ k = BannersUpTo(p)
                  /\ out[p].n = Len(BatchOf(k))
                  /\ k > 1 =>
                        /\ out[p - 1].kind \in Reports
                        /\ ~dry_run => Len(statuses) >= k - 1

C8_Witness ==
    /\ ~dry_run
    /\ pc = "wait"
    /\ Len(calls) = 3
    /\ Len(statuses) = 2
    /\ out[5] = Line("banner", 3, 10, <<>>)
    /\ inflight = 1

\* C9: every batch handed to send_invites has between 1 and 25 addresses;
\* every batch but the last has exactly 25 and the last has the remainder
\* (25 when N is a positive multiple of 25); 60 addresses give batches of
\* sizes 25, 25, 10 in that order.
C9_BatchSizes ==
    /\ \A k \in 1..Len(calls) :
          /\ Len(calls[k]) >= 1
          /\ Len(calls[k]) <= batch_size
          /\ k < NumBatches => Len(calls[k]) = batch_size
          /\ k = NumBatches =>
                Len(calls[k]) = (IF N % batch_size = 0 THEN batch_size
                                 ELSE N % batch_size)
    /\ (pc = "done" /\ N = 60) =>
          [k \in 1..Len(calls) |-> Len(calls[k])] = <<25, 25, 10>>

C9_Witness ==
    /\ pc = "done"
    /\ N = 60
    /\ [k \in 1..Len(calls) |-> Len(calls[k])] = <<25, 25, 10>>

\* a second witness of C9's other case: N a positive multiple of 25
C9_WitnessMultiple ==
    /\ pc = "done"
    /\ N = 50
    /\ [k \in 1..Len(calls) |-> Len(calls[k])] = <<25, 25>>

\* C10: a run whose file was read ends: main returns, unless starting a
\* process raised.  When main returns it does so without an error, after
\* exactly ceil(N / 25) calls of send_invites, each batch once, whatever the
\* exit statuses were; for an empty list nothing was printed and nothing run.
C10_DriverTerminates ==
    /\ (readable /\ pc = "start") ~> (pc = "done" \/ err = "OSError(run)")
    /\ (readable /\ dry_run) ~> (pc = "done")
    /\ [](pc = "done" =>
            /\ err = ""
            /\ Len(calls) = NumBatches
            /\ ~dry_run => (Len(statuses) = NumBatches /\ Len(launched) = NumBatches)
            /\ i >= N
            /\ N = 0 => (out = <<>> /\ calls = <<>> /\ launched = <<>>))

C10_Witness ==
    /\ pc = "done"
    /\ ~dry_run
    /\ statuses = <<0, 127, 1>>
    /\ Len(calls) = 3
    /\ err = ""

\* a second witness of C10's other case: the empty input
C10_WitnessEmpty ==
    /\ pc = "done"
    /\ readable
    /\ file = <<>>
    /\ N = 0
    /\ out = <<>>
    /\ calls = <<>>

====
